---- MODULE Spec2Model ----
(***************************************************************************)
(* The report-generation pipeline of src/sample.py: a three-node LangGraph *)
(* workflow (generate_sections -> process_section -> compile_report) over  *)
(* one InputData state, driven by the Streamlit button handler.            *)
(*                                                                         *)
(* Text is modelled as a sequence of symbols.  A symbol is one character   *)
(* (".", " ", the newline) or a word that holds neither a newline nor a    *)
(* ". " ("A" for any number or word, "final_report"), so that str.split    *)
(* and the `in` test act on the model exactly as they act on the text.     *)
(***************************************************************************)
EXTENDS Naturals, Sequences, FiniteSets

VARIABLES
    theme,          \* state.research_theme
    sections,       \* state.sections   (None or Some(list of titles))
    summaries,      \* state.summaries  (None or Some(map title -> text))
    references,     \* state.references (None or Some(map title -> list))
    node,           \* the workflow node about to run, "END" or "FAILED"
    done,           \* the nodes that have returned, in order
    error,          \* the exception that ended the run, "none" if none
    rendered,       \* the button handler has displayed the output
    final_report,   \* the text the button handler displayed
    response,       \* generate_sections: local `response`
    usedDefault,    \* generate_sections: the fallback of line 55 was taken
    pc,             \* process_section: the next port call of the loop body
    i,              \* process_section: index of the section being processed
    loc_summaries,  \* process_section: local `summaries`
    loc_references, \* process_section: local `references`
    keywords,       \* process_section: local `keywords`
    search_results, \* process_section: local `search_results`
    events          \* every port call and progress notification, in order

vars == <<theme, sections, summaries, references, node, done, error, rendered,
          final_report, response, usedDefault, pc, i, loc_summaries,
          loc_references, keywords, search_results, events>>

stateVars == <<theme, sections, summaries, references>>
planVars  == <<response, usedDefault>>
loopVars  == <<pc, i, loc_summaries, loc_references, keywords, search_results>>
uiVars    == <<rendered, final_report>>

-----------------------------------------------------------------------------
(* Bounds and input sets                                                   *)

MaxLen == 6                     \* longest model response to the planning prompt
LiveLen == 5                    \* the same, for the runs checked for termination

NL    == "\n"
Chars == {".", " ", NL, "A", "final_report"}
Responses == UNION {[1..n -> Chars] : n \in 0..MaxLen}

Themes == {"EV market", "AI chips"}     \* non-empty: line 148 filters ""
Texts  == {"", "text"}                  \* what a completion may return
NumResults == 10                        \* num_results of the search call
SearchOutcomes ==
    {<<>>,
     <<[name |-> "n1", url |-> "u1"]>>,
     <<[name |-> "n1", url |-> "u1"], [name |-> "n2", url |-> "u2"]>>,
     <<[name |-> "n2", url |-> "u2"], [name |-> "n1", url |-> "u1"]>>}

-----------------------------------------------------------------------------
(* Optional fields and dictionaries                                        *)

None      == <<>>
Some(x)   == <<x>>
Get(o)    == o[1]
IsSet(o)  == o # None

EmptyDict == [k \in {} |-> ""]
Keys(d)   == DOMAIN d
Put(d, k, v) == [x \in (DOMAIN d) \cup {k} |-> IF x = k THEN v ELSE d[x]]
Range(s)  == {s[k] : k \in 1..Len(s)}

-----------------------------------------------------------------------------
(* str.split and the `in` test                                             *)

Delim == <<".", " ">>
FINAL_REPORT == <<"final_report">>
DefaultSections == <<<<"Overview">>, <<"DetailedAnalysis">>, <<"Conclusion">>>>

Find(s, sep) ==
    LET hits == {k \in 1..Len(s) :
                    /\ k + Len(sep) - 1 <= Len(s)
                    /\ SubSeq(s, k, k + Len(sep) - 1) = sep}
    IN  IF hits = {} THEN 0
        ELSE CHOOSE k \in hits : \A m \in hits : k <= m

Contains(s, sep) == Find(s, sep) # 0

RECURSIVE Split(_, _)
Split(s, sep) ==
    LET k == Find(s, sep)
    IN  IF k = 0 THEN <<s>>
        ELSE <<SubSeq(s, 1, k - 1)>> \o Split(SubSeq(s, k + Len(sep), Len(s)), sep)

Lines(resp) == Split(resp, <<NL>>)

-----------------------------------------------------------------------------
(* generate_sections, lines 53-55                                          *)

Accepts(line)     == Contains(line, Delim)          \* if ". " in line
TitleRaises(line) == Len(Split(line, Delim)) < 2    \* [1] out of range
(* the numbering prefix taken instead of the title: index 0 for index 1 *)
Title_Prefix(line) == Split(line, Delim)[1]
Title(line)       == Split(line, Delim)[2]          \* line.split(". ")[1]

RECURSIVE Comprehension(_)
Comprehension(lines) ==
    IF lines = <<>> THEN <<>>
    ELSE (IF Accepts(Head(lines)) /\ ~TitleRaises(Head(lines))
          THEN <<Title(Head(lines))>> ELSE <<>>)
         \o Comprehension(Tail(lines))

ParseSections(resp) == Comprehension(Lines(resp))
ParseRaises(resp) ==
    \E k \in 1..Len(Lines(resp)) :
        Accepts(Lines(resp)[k]) /\ TitleRaises(Lines(resp)[k])

(* the fallback forgotten *)
UseFallback_Never(parsed) == FALSE
UseFallback(parsed)    == parsed = <<>>             \* `sections if sections else`
ChooseSections(parsed) == IF UseFallback(parsed) THEN DefaultSections ELSE parsed

-----------------------------------------------------------------------------
(* process_section and compile_report: the dictionary writes               *)

(* name and url put in the wrong fields *)
Normalize_Swapped(results) ==
    [k \in 1..Len(results) |->
        [title |-> results[k].url, link |-> results[k].name]]
Normalize(results) ==
    [k \in 1..Len(results) |->
        [title |-> results[k].name, link |-> results[k].url]]

(* `if search_results:` put before the write *)
StoreReferences_SkipEmpty(refs, section, results) ==
    IF results = <<>> THEN refs ELSE Put(refs, section, Normalize(results))
(* `if summary:` put before the write *)
StoreSummary_SkipEmpty(sums, section, text) ==
    IF text = "" THEN sums ELSE Put(sums, section, text)
(* `summaries = {}` placed inside the loop *)
StoreSummary_Reset(sums, section, text) == Put(EmptyDict, section, text)
StoreReferences(refs, section, results) == Put(refs, section, Normalize(results))
StoreSummary(sums, section, text)       == Put(sums, section, text)
AddFinalReport(sums, text)              == Put(sums, FINAL_REPORT, text)

-----------------------------------------------------------------------------
(* The workflow graph, lines 132-141                                       *)

(* the first edge drawn to the wrong node *)
Edge_SkipsResearch(n) ==
    CASE n = "generate_sections" -> "compile_report"
      [] n = "process_section"   -> "compile_report"
      [] OTHER                   -> "END"
EntryPoint == "generate_sections"
Edge(n) ==
    CASE n = "generate_sections" -> "process_section"
      [] n = "process_section"   -> "compile_report"
      [] OTHER                   -> "END"     \* no outgoing edge: the run ends

-----------------------------------------------------------------------------
(* The log of port calls and progress notifications                        *)

Ev(port, kind, idx, section, query, input, ok, text, results) ==
    [port |-> port, kind |-> kind, idx |-> idx, section |-> section,
     query |-> query, input |-> input, ok |-> ok, text |-> text,
     results |-> results]

WriteEv(idx, section) == Ev("ui", "write", idx, section, "", <<>>, TRUE, "", <<>>)
LlmEv(kind, idx, section, input, ok, text) ==
    Ev("llm", kind, idx, section, "", input, ok, text, <<>>)
(* the theme searched instead of the generated keywords *)
SearchEv_ByTheme(idx, section, query, ok, results) ==
    [port |-> "search", kind |-> "search", idx |-> idx, section |-> section,
     query |-> theme, limit |-> NumResults, input |-> <<>>, ok |-> ok,
     text |-> "", results |-> results]
SearchEv(idx, section, query, ok, results) ==
    [port |-> "search", kind |-> "search", idx |-> idx, section |-> section,
     query |-> query, limit |-> NumResults, input |-> <<>>, ok |-> ok,
     text |-> "", results |-> results]

Section == Get(sections)[i]      \* the loop variable `section`

-----------------------------------------------------------------------------
Init ==
    /\ theme \in Themes
    /\ sections = None /\ summaries = None /\ references = None
    /\ node = EntryPoint /\ done = <<>> /\ error = "none"
    /\ rendered = FALSE /\ final_report = None
    /\ response = <<>> /\ usedDefault = FALSE
    /\ pc = "idle" /\ i = 0
    /\ loc_summaries = EmptyDict /\ loc_references = EmptyDict
    /\ keywords = "" /\ search_results = <<>>
    /\ events = <<>>

(* An exception leaves the workflow: nothing else of the state changes.    *)
Raise(exc) ==
    /\ error' = exc
    /\ node' = "FAILED"
    /\ UNCHANGED <<done, stateVars, uiVars>>

(* A node returns: the workflow follows its outgoing edge.                 *)
Return ==
    /\ done' = Append(done, node)
    /\ node' = Edge(node)
    /\ UNCHANGED <<error, uiVars>>

(* generate_sections, lines 42-56 *)
GenerateSectionsOK ==
    /\ node = "generate_sections"
    /\ \E r \in Responses :
        /\ response' = r
        /\ events' = Append(events, LlmEv("plan", 0, <<>>, <<>>, TRUE, ""))
        /\ IF ParseRaises(r)
           THEN /\ Raise("IndexError")
                /\ UNCHANGED usedDefault
           ELSE /\ sections' = Some(ChooseSections(ParseSections(r)))
                /\ usedDefault' = UseFallback(ParseSections(r))
                /\ Return
                /\ UNCHANGED <<theme, summaries, references>>
    /\ UNCHANGED loopVars

(* the two maps initialised at the start of planning, before the call *)
GenerateSectionsFail_InitsMaps ==
    /\ node = "generate_sections"
    /\ events' = Append(events, LlmEv("plan", 0, <<>>, <<>>, FALSE, ""))
    /\ error' = "UpstreamServiceError" /\ node' = "FAILED"
    /\ summaries' = Some(EmptyDict) /\ references' = Some(EmptyDict)
    /\ UNCHANGED <<done, theme, sections, uiVars, planVars, loopVars>>
GenerateSectionsFail ==
    /\ node = "generate_sections"
    /\ events' = Append(events, LlmEv("plan", 0, <<>>, <<>>, FALSE, ""))
    /\ Raise("UpstreamServiceError")
    /\ UNCHANGED <<planVars, loopVars>>

(* process_section, lines 60-63: the locals and the loop entry *)
ProcessSectionEnter ==
    /\ node = "process_section" /\ pc = "idle"
    /\ response' = <<>>
    /\ UNCHANGED <<usedDefault, events, keywords, search_results>>
    /\ loc_summaries' = EmptyDict /\ loc_references' = EmptyDict
    /\ IF ~IsSet(sections)
       THEN Raise("TypeError") /\ UNCHANGED <<pc, i>>
       ELSE IF Get(sections) = <<>>
            THEN /\ summaries' = Some(EmptyDict)
                 /\ references' = Some(EmptyDict)
                 /\ Return
                 /\ UNCHANGED <<theme, sections, pc, i>>
            ELSE /\ pc' = "keywords" /\ i' = 1
                 /\ UNCHANGED <<node, done, error, stateVars, uiVars>>

(* st.write moved below the keyword completion *)
KeywordsOK_WriteAfter ==
    /\ node = "process_section" /\ pc = "keywords"
    /\ \E t \in Texts :
        /\ keywords' = t
        /\ events' = events \o <<LlmEv("keywords", i, Section, <<>>, TRUE, t),
                                 WriteEv(i, Section)>>
    /\ pc' = "search"
    /\ UNCHANGED <<node, done, error, stateVars, uiVars, planVars, i,
                   loc_summaries, loc_references, search_results>>
(* the keyword completion made twice *)
KeywordsOK_Twice ==
    /\ node = "process_section" /\ pc = "keywords"
    /\ \E t \in Texts :
        /\ keywords' = t
        /\ events' = events \o <<WriteEv(i, Section),
                                 LlmEv("keywords", i, Section, <<>>, TRUE, t),
                                 LlmEv("keywords", i, Section, <<>>, TRUE, t)>>
    /\ pc' = "search"
    /\ UNCHANGED <<node, done, error, stateVars, uiVars, planVars, i,
                   loc_summaries, loc_references, search_results>>
(* lines 64-75: the progress notification and the keyword completion *)
KeywordsOK ==
    /\ node = "process_section" /\ pc = "keywords"
    /\ \E t \in Texts :
        /\ keywords' = t
        /\ events' = events \o <<WriteEv(i, Section),
                                 LlmEv("keywords", i, Section, <<>>, TRUE, t)>>
    /\ pc' = "search"
    /\ UNCHANGED <<node, done, error, stateVars, uiVars, planVars, i,
                   loc_summaries, loc_references, search_results>>

KeywordsFail ==
    /\ node = "process_section" /\ pc = "keywords"
    /\ events' = events \o <<WriteEv(i, Section),
                             LlmEv("keywords", i, Section, <<>>, FALSE, "")>>
    /\ Raise("UpstreamServiceError")
    /\ UNCHANGED <<planVars, loopVars>>

(* lines 77-79: the search and the reference list *)
SearchOK ==
    /\ node = "process_section" /\ pc = "search"
    /\ \E r \in SearchOutcomes :
        /\ Len(r) <= NumResults
        /\ search_results' = r
        /\ loc_references' = StoreReferences(loc_references, Section, r)
        /\ events' = Append(events, SearchEv(i, Section, keywords, TRUE, r))
    /\ pc' = "summarize"
    /\ UNCHANGED <<node, done, error, stateVars, uiVars, planVars, i,
                   loc_summaries, keywords>>

(* the search failure caught and the section carried on without evidence *)
SearchFail_Isolated ==
    /\ node = "process_section" /\ pc = "search"
    /\ events' = Append(events, SearchEv(i, Section, keywords, FALSE, <<>>))
    /\ search_results' = <<>>
    /\ loc_references' = StoreReferences(loc_references, Section, <<>>)
    /\ pc' = "summarize"
    /\ UNCHANGED <<node, done, error, stateVars, uiVars, planVars, i,
                   loc_summaries, keywords>>
SearchFail ==
    /\ node = "process_section" /\ pc = "search"
    /\ events' = Append(events, SearchEv(i, Section, keywords, FALSE, <<>>))
    /\ Raise("UpstreamServiceError")
    /\ UNCHANGED <<planVars, loopVars>>

(* the results fetched a second time for the summary prompt *)
SummarizeOK_Refetch ==
    /\ node = "process_section" /\ pc = "summarize"
    /\ \E t \in Texts, r \in SearchOutcomes :
        /\ events' = events \o
                        <<SearchEv(i, Section, keywords, TRUE, r),
                          LlmEv("summary", i, Section, r, TRUE, t)>>
        /\ IF i < Len(Get(sections))
           THEN /\ loc_summaries' = StoreSummary(loc_summaries, Section, t)
                /\ pc' = "keywords" /\ i' = i + 1
                /\ UNCHANGED <<node, done, error, stateVars, uiVars,
                               loc_references, keywords, search_results>>
           ELSE /\ summaries' = Some(StoreSummary(loc_summaries, Section, t))
                /\ references' = Some(loc_references)
                /\ Return
                /\ pc' = "idle" /\ i' = 0
                /\ loc_summaries' = EmptyDict /\ loc_references' = EmptyDict
                /\ keywords' = "" /\ search_results' = <<>>
                /\ UNCHANGED <<theme, sections>>
    /\ UNCHANGED planVars
(* state.summaries and state.references written after every section *)
SummarizeOK_Incremental ==
    /\ node = "process_section" /\ pc = "summarize"
    /\ \E t \in Texts :
        /\ events' = Append(events,
                        LlmEv("summary", i, Section, search_results, TRUE, t))
        /\ summaries' = Some(StoreSummary(loc_summaries, Section, t))
        /\ references' = Some(loc_references)
        /\ IF i < Len(Get(sections))
           THEN /\ loc_summaries' = StoreSummary(loc_summaries, Section, t)
                /\ pc' = "keywords" /\ i' = i + 1
                /\ UNCHANGED <<node, done, error, theme, sections, uiVars,
                               loc_references, keywords, search_results>>
           ELSE /\ Return
                /\ pc' = "idle" /\ i' = 0
                /\ loc_summaries' = EmptyDict /\ loc_references' = EmptyDict
                /\ keywords' = "" /\ search_results' = <<>>
                /\ UNCHANGED <<theme, sections>>
    /\ UNCHANGED planVars
(* lines 81-105: the summary, the next iteration, the final assignments *)
SummarizeOK ==
    /\ node = "process_section" /\ pc = "summarize"
    /\ \E t \in Texts :
        /\ events' = Append(events,
                        LlmEv("summary", i, Section, search_results, TRUE, t))
        /\ IF i < Len(Get(sections))
           THEN /\ loc_summaries' = StoreSummary(loc_summaries, Section, t)
                /\ pc' = "keywords" /\ i' = i + 1
                /\ UNCHANGED <<node, done, error, stateVars, uiVars,
                               loc_references, keywords, search_results>>
           ELSE /\ summaries' = Some(StoreSummary(loc_summaries, Section, t))
                /\ references' = Some(loc_references)
                /\ Return
                /\ pc' = "idle" /\ i' = 0
                /\ loc_summaries' = EmptyDict /\ loc_references' = EmptyDict
                /\ keywords' = "" /\ search_results' = <<>>
                /\ UNCHANGED <<theme, sections>>
    /\ UNCHANGED planVars

SummarizeFail ==
    /\ node = "process_section" /\ pc = "summarize"
    /\ events' = Append(events,
                    LlmEv("summary", i, Section, search_results, FALSE, ""))
    /\ Raise("UpstreamServiceError")
    /\ UNCHANGED <<planVars, loopVars>>

(* the compiled report stored in the theme field as well *)
CompileReportOK_WritesTheme ==
    /\ node = "compile_report"
    /\ \E t \in Texts :
        /\ events' = Append(events, LlmEv("compile", 0, <<>>, <<>>, TRUE, t))
        /\ IF ~IsSet(summaries)
           THEN Raise("TypeError")
           ELSE /\ summaries' = Some(AddFinalReport(Get(summaries), t))
                /\ theme' = t
                /\ Return
                /\ UNCHANGED <<sections, references>>
    /\ UNCHANGED <<planVars, loopVars>>
(* compile_report, lines 108-129 *)
CompileReportOK ==
    /\ node = "compile_report"
    /\ \E t \in Texts :
        /\ events' = Append(events, LlmEv("compile", 0, <<>>, <<>>, TRUE, t))
        /\ IF ~IsSet(summaries)
           THEN Raise("TypeError")
           ELSE /\ summaries' = Some(AddFinalReport(Get(summaries), t))
                /\ Return
                /\ UNCHANGED <<theme, sections, references>>
    /\ UNCHANGED <<planVars, loopVars>>

CompileReportFail ==
    /\ node = "compile_report"
    /\ events' = Append(events, LlmEv("compile", 0, <<>>, <<>>, FALSE, ""))
    /\ Raise("UpstreamServiceError")
    /\ UNCHANGED <<planVars, loopVars>>

(* the button handler after workflow.invoke, lines 150-158 *)
Render ==
    /\ node = "END" /\ ~rendered
    /\ rendered' = TRUE
    /\ final_report' =
         IF IsSet(summaries) /\ FINAL_REPORT \in Keys(Get(summaries))
         THEN Some(Get(summaries)[FINAL_REPORT])
         ELSE Some("failed")
    /\ UNCHANGED <<node, done, error, stateVars, planVars, loopVars, events>>

Next ==
    \/ GenerateSectionsOK \/ GenerateSectionsFail
    \/ ProcessSectionEnter
    \/ KeywordsOK \/ KeywordsFail
    \/ SearchOK \/ SearchFail
    \/ SummarizeOK \/ SummarizeFail
    \/ CompileReportOK \/ CompileReportFail
    \/ Render

Spec == Init /\ [][Next]_vars

(* The run is one sequential thread: a step that can be taken is taken,
   given that every port call returns or fails.  The runs of FairSpec are
   those of Spec whose planning response has at most LiveLen symbols. *)
PlanShort == GenerateSectionsOK /\ Len(response') <= LiveLen
NextLive ==
    \/ PlanShort \/ GenerateSectionsFail
    \/ ProcessSectionEnter
    \/ KeywordsOK \/ KeywordsFail
    \/ SearchOK \/ SearchFail
    \/ SummarizeOK \/ SummarizeFail
    \/ CompileReportOK \/ CompileReportFail
    \/ Render
FairSpec == Init /\ [][NextLive]_vars /\ WF_vars(NextLive)

-----------------------------------------------------------------------------
(* Vocabulary of the properties                                            *)

Last(s) == s[Len(s)]

Stage ==
    IF error # "none" THEN "FAILED"
    ELSE IF rendered THEN "END"
    ELSE IF done = <<>> THEN "START"
    ELSE CASE Last(done) = "generate_sections" -> "PLANNED"
           [] Last(done) = "process_section"   -> "RESEARCHED"
           [] Last(done) = "compile_report"    -> "COMPILED"

StageNo(s) ==
    CASE s = "START" -> 0 [] s = "PLANNED" -> 1 [] s = "RESEARCHED" -> 2
      [] s = "COMPILED" -> 3 [] s = "END" -> 4 [] OTHER -> 9

Titles == IF IsSet(sections) THEN Range(Get(sections)) ELSE {}

(* generate_sections has returned and process_section has not started: the
   planning response and the sections it produced are both in view. *)
PlanReturned == error = "none" /\ node = "process_section" /\ pc = "idle"

(* The lines of a text, and the test for ". ", read off the text itself. *)
NLPos(t) == {k \in 1..Len(t) : t[k] = NL}
Cut(t, j) ==
    IF j = 0 THEN 0
    ELSE IF j > Cardinality(NLPos(t)) THEN Len(t) + 1
    ELSE CHOOSE k \in NLPos(t) : Cardinality({m \in NLPos(t) : m < k}) = j - 1
LineAt(t, j) == SubSeq(t, Cut(t, j - 1) + 1, Cut(t, j) - 1)
LineCount(t) == Cardinality(NLPos(t)) + 1
HasDelim(l)  == \E k \in 1..Len(l) : k < Len(l) /\ l[k] = "." /\ l[k + 1] = " "
Matching(t)  == {j \in 1..LineCount(t) : HasDelim(LineAt(t, j))}
(* the n-th line of t that holds ". " *)
NthMatch(t, n) ==
    LineAt(t, CHOOSE j \in Matching(t) :
                  Cardinality({m \in Matching(t) : m < j}) = n - 1)
FirstDelim(l) ==
    CHOOSE k \in 1..Len(l) :
        /\ k < Len(l) /\ l[k] = "." /\ l[k + 1] = " "
        /\ \A m \in 1..(k - 1) : ~(l[m] = "." /\ l[m + 1] = " ")
AfterFirst(l) == SubSeq(l, FirstDelim(l) + 2, Len(l))
IsPrefix(a, b) == Len(a) <= Len(b) /\ a = SubSeq(b, 1, Len(a))

-----------------------------------------------------------------------------
(* C1: the stages run in the order Planner, Researcher, Compiler: the run
   moves START -> PLANNED -> RESEARCHED -> COMPILED -> END one stage at a
   time and never back (a failure may end it at any stage); the Researcher
   is about to run only with sections set and non-empty, the Compiler only
   with summaries and references holding every section. *)
C1_Invocation ==
    /\ node = "generate_sections" => Stage = "START"
    /\ node = "process_section" =>
          /\ Stage = "PLANNED"
          /\ IsSet(sections) /\ Get(sections) # <<>>
    /\ node = "compile_report" =>
          /\ Stage = "RESEARCHED"
          /\ IsSet(summaries) /\ IsSet(references)
          /\ Titles \subseteq Keys(Get(summaries))
          /\ Titles \subseteq Keys(Get(references))
    /\ node = "END" => Stage \in {"COMPILED", "END"}
C1_Step ==
    Stage' # Stage =>
        \/ StageNo(Stage') = StageNo(Stage) + 1
        \/ Stage' = "FAILED" /\ Stage \notin {"COMPILED", "END"}
C1_PipelineOrder == []C1_Invocation /\ [][C1_Step]_vars

C1_Witness ==
    /\ Stage = "END"
    /\ done = <<"generate_sections", "process_section", "compile_report">>
    /\ Len(Get(sections)) >= 2

(* C2: a failed port call is the last thing the run does: the run has ended
   with UpstreamServiceError, the node of the failing call has not returned
   and no later node has run, and no call (so no retry) follows it. *)
NodeNo(kind) ==
    CASE kind = "plan" -> 1 [] kind = "compile" -> 3 [] OTHER -> 2
C2_FailurePropagates ==
    /\ \A k \in 1..Len(events) :
          ~events[k].ok =>
              /\ k = Len(events)
              /\ error = "UpstreamServiceError"
              /\ node = "FAILED"
              /\ Len(done) = NodeNo(events[k].kind) - 1
              /\ ~rendered
    /\ error = "UpstreamServiceError" =>
          events # <<>> /\ ~Last(events).ok

C2_Witness ==
    /\ error = "UpstreamServiceError"
    /\ Last(events).kind = "search" /\ Last(events).idx = 2

(* C3: once the Researcher has completed, summaries and references have the
   same keys, the set of the titles in sections. *)
C3_KeyParity ==
    Stage = "RESEARCHED" =>
        /\ Keys(Get(summaries)) = Keys(Get(references))
        /\ Keys(Get(summaries)) = Titles

C3_Witness ==
    /\ Stage = "RESEARCHED"
    /\ Cardinality(Titles) >= 2
    /\ \E s \in Titles : Get(summaries)[s] = ""

(* C4: after the Compiler, summaries["final_report"] is a non-empty string
   and the keys of summaries are the Researcher's keys plus exactly one new
   key, "final_report". *)
C4_ReservedKeyAdded ==
    Stage \in {"COMPILED", "END"} =>
        /\ Get(summaries)[FINAL_REPORT] # ""
        /\ FINAL_REPORT \notin Keys(Get(references))
        /\ Keys(Get(summaries)) = Keys(Get(references)) \cup {FINAL_REPORT}

(* C5: the title taken from an accepted line is the whole text of the line
   after its first ". ". *)
C5_TitleIsRestOfLine ==
    (PlanReturned /\ Matching(response) # {}) =>
        \A n \in 1..Len(Get(sections)) :
            n <= Cardinality(Matching(response)) =>
                Get(sections)[n] = AfterFirst(NthMatch(response, n))

(* C6: when some line of the response holds ". ", sections has exactly one
   title per such line, in the order of the lines, each taken from the text
   that follows the first ". " of its line; the parse never raises. *)
C6_OneTitlePerLine ==
    /\ error # "IndexError"
    /\ (PlanReturned /\ Matching(response) # {}) =>
          /\ Len(Get(sections)) = Cardinality(Matching(response))
          /\ \A n \in 1..Len(Get(sections)) :
                IsPrefix(Get(sections)[n], AfterFirst(NthMatch(response, n)))

C6_Witness ==
    /\ PlanReturned
    /\ LineCount(response) = 3
    /\ Cardinality(Matching(response)) = 2
    /\ Len(Get(sections)) = 2

(* C7: sections is never empty once set; the Planner falls back to the
   default three titles exactly when no line of the response holds ". ". *)
C7_Fallback ==
    /\ IsSet(sections) => Get(sections) # <<>>
    /\ PlanReturned =>
          /\ usedDefault <=> Matching(response) = {}
          /\ usedDefault => Get(sections) = DefaultSections

C7_Witness ==
    /\ PlanReturned /\ usedDefault
    /\ Len(response) = MaxLen
    /\ Len(Get(sections)) = 3

(* C8: a search that returns no result does not fail the Researcher: the
   section's reference list is empty, the section's summary call follows
   with the empty result set as its input, its summary is stored, and the
   next section, if any, is taken up. *)
C8_EmptyEvidence ==
    \A k \in 1..Len(events) :
        (events[k].kind = "search" /\ events[k].ok /\ events[k].results = <<>>) =>
            LET s == events[k].section
                n == events[k].idx
            IN  /\ k = Len(events) =>
                      /\ error = "none" /\ node = "process_section"
                      /\ pc = "summarize" /\ i = n
                      /\ s \in Keys(loc_references)
                      /\ loc_references[s] = <<>>
                /\ k < Len(events) =>
                      /\ events[k + 1].kind = "summary"
                      /\ events[k + 1].idx = n
                      /\ events[k + 1].input = <<>>
                /\ (k + 1 = Len(events) /\ events[k + 1].ok) =>
                      /\ error = "none"
                      /\ IF n < Len(Get(sections))
                         THEN /\ node = "process_section" /\ pc = "keywords"
                              /\ i = n + 1
                              /\ s \in Keys(loc_summaries)
                         ELSE /\ Stage = "RESEARCHED"
                              /\ s \in Keys(Get(summaries))
                              /\ s \in Keys(Get(references))
                /\ (k + 1 < Len(events) /\ events[k + 1].ok
                        /\ n < Len(Get(sections))) =>
                      /\ events[k + 2].kind = "write"
                      /\ events[k + 2].idx = n + 1

C8_Witness ==
    /\ Stage = "RESEARCHED"
    /\ Len(Get(sections)) >= 2
    /\ \E k \in 1..Len(events) :
          /\ events[k].kind = "search" /\ events[k].ok
          /\ events[k].results = <<>> /\ events[k].idx = 1
    /\ Get(references)[Get(sections)[1]] = <<>>
    /\ Get(references)[Get(sections)[2]] # <<>>

(* C9 as stated: after the Researcher, each mapping holds as many entries
   as sections has titles. *)
C9_OneEntryPerSection ==
    Stage = "RESEARCHED" =>
        /\ Cardinality(Keys(Get(summaries))) = Len(Get(sections))
        /\ Cardinality(Keys(Get(references))) = Len(Get(sections))

(* C9 amended: after the Researcher, each mapping holds as many entries as
   sections has distinct titles, which is the length of sections when no
   title occurs twice. *)
NoRepeat(s) == \A a, b \in 1..Len(s) : s[a] = s[b] => a = b
C9_OneEntryPerDistinctTitle ==
    Stage = "RESEARCHED" =>
        /\ Cardinality(Keys(Get(summaries))) = Cardinality(Titles)
        /\ Cardinality(Keys(Get(references))) = Cardinality(Titles)
        /\ NoRepeat(Get(sections)) =>
              Cardinality(Keys(Get(summaries))) = Len(Get(sections))

C9_Witness ==
    /\ Stage = "RESEARCHED"
    /\ ~NoRepeat(Get(sections))
    /\ Cardinality(Keys(Get(summaries))) < Len(Get(sections))

(* C10: sections never holds the reserved title "final_report", and no
   "final_report" key is in summaries when the Compiler is about to run. *)
C10_ReservedTitleUnused ==
    /\ FINAL_REPORT \notin Titles
    /\ node = "compile_report" => FINAL_REPORT \notin Keys(Get(summaries))

-----------------------------------------------------------------------------
(* Vocabulary of the properties about process_section                      *)

(* the reference list the spec prescribes for a result list *)
AsRefs(r) == [j \in 1..Len(r) |-> [title |-> r[j].name, link |-> r[j].url]]
(* the positions in the log of the events of one kind *)
At(kind) == {k \in 1..Len(events) : events[k].kind = kind}
(* the last successful search made for the title s *)
LastSearchOf(s) ==
    CHOOSE k \in At("search") :
        /\ events[k].section = s /\ events[k].ok
        /\ \A m \in At("search") :
              (events[m].section = s /\ events[m].ok) => m <= k

(* C11: each section's search is made once; the summary call of a section
   directly follows that search and takes its result list as input, and the
   section's reference list is built from the same result list. *)
C11_OneSearchPerSection ==
    /\ \A k, m \in At("search") : events[k].idx = events[m].idx => k = m
    /\ \A k \in At("summary") :
          /\ k > 1 /\ (k - 1) \in At("search")
          /\ events[k - 1].ok
          /\ events[k - 1].idx = events[k].idx
          /\ events[k].input = events[k - 1].results
    /\ \A k \in At("search") :
          (events[k].ok /\ k = Len(events)) =>
              /\ search_results = events[k].results
              /\ loc_references[events[k].section] = AsRefs(events[k].results)
    /\ Stage = "RESEARCHED" =>
          \A s \in Titles :
              Get(references)[s] = AsRefs(events[LastSearchOf(s)].results)

C11_Witness ==
    /\ Stage = "RESEARCHED"
    /\ Cardinality(At("search")) = 3
    /\ \E k \in At("summary") : Len(events[k].input) = 2

(* C12: no step of the run changes theme. *)
C12_ThemeImmutable == [][theme' = theme]_vars

C12_Witness == Stage = "END" /\ theme = "AI chips" /\ IsSet(final_report)

(* C13: whenever summaries or references is set, sections is set. *)
C13_SectionsFirst ==
    (IsSet(summaries) \/ IsSet(references)) => IsSet(sections)

C13_Witness ==
    /\ IsSet(summaries) /\ IsSet(references)
    /\ Stage = "RESEARCHED"

(* C14: the sections are processed one at a time in the order of the
   sections sequence: the events of a section never follow those of a later
   one, each section's first event is its progress notification, naming the
   section, and the notifications are, in order, the titles of sections:
   all of them once the Researcher has completed. *)
ResearchKinds == {"write", "keywords", "search", "summary"}
Research == {k \in 1..Len(events) : events[k].kind \in ResearchKinds}
Planned == IF IsSet(sections) THEN Get(sections) ELSE <<>>
C14_SectionsInOrder ==
    LET R == Research
        W == At("write")
        \* the position of the n-th notification
        nth == [n \in 1..Cardinality(W) |->
                  CHOOSE k \in W : Cardinality({m \in W : m < k}) = n - 1]
        \* the position of the first event of section n
        first == [n \in {events[k].idx : k \in R} |->
                  CHOOSE k \in R : /\ events[k].idx = n
                                   /\ \A m \in R : events[m].idx = n => k <= m]
    IN  /\ \A k, m \in R : k < m => events[k].idx <= events[m].idx
        /\ \A n \in DOMAIN first : first[n] \in W
        /\ Cardinality(W) <= Len(Planned)
        /\ \A n \in DOMAIN nth :
              /\ events[nth[n]].idx = n
              /\ events[nth[n]].section = Planned[n]
        /\ Stage \in {"RESEARCHED", "COMPILED", "END"} =>
              Cardinality(W) = Len(Planned)

C14_Witness ==
    /\ Stage = "RESEARCHED"
    /\ Cardinality(At("write")) = 2
    /\ Get(sections)[1] # Get(sections)[2]

(* C15: inside a section the calls come in the order keyword completion,
   search, summary completion; the query of the search is the text the
   keyword completion of that section returned, and its limit is 10. *)
C15_CallOrder ==
    /\ \A k \in At("keywords") :
          /\ k > 1 /\ (k - 1) \in At("write")
          /\ events[k - 1].idx = events[k].idx
    /\ \A k \in At("search") :
          /\ k > 1 /\ (k - 1) \in At("keywords")
          /\ events[k - 1].ok
          /\ events[k - 1].idx = events[k].idx
          /\ events[k].query = events[k - 1].text
          /\ events[k].limit = 10
    /\ \A k \in At("summary") :
          /\ k > 1 /\ (k - 1) \in At("search")
          /\ events[k - 1].idx = events[k].idx

C15_Witness ==
    /\ Stage = "RESEARCHED"
    /\ \E k, m \in At("search") :
          events[k].query = "text" /\ events[m].query = ""

(* C16: the reference list of a section has the length of the result list
   and its j-th element is the name and the url of the j-th result. *)
RefsMatch(refs, r) ==
    /\ Len(refs) = Len(r)
    /\ \A j \in 1..Len(r) :
          refs[j].title = r[j].name /\ refs[j].link = r[j].url
C16_ReferencesInOrder ==
    /\ \A k \in At("search") :
          (events[k].ok /\ k = Len(events)) =>
              RefsMatch(loc_references[events[k].section], events[k].results)
    /\ Stage \in {"RESEARCHED", "COMPILED", "END"} =>
          \A s \in Titles :
              RefsMatch(Get(references)[s], events[LastSearchOf(s)].results)

C16_Witness ==
    /\ Stage = "END"
    /\ \E s \in Titles :
          /\ Len(Get(references)[s]) = 2
          /\ Get(references)[s][1].title = "n2"
          /\ Get(references)[s][2].link = "u1"

(* C17: the Researcher writes the state all or nothing: summaries and
   references stay unset until it returns, and a failure inside it leaves
   them unset and leaves sections and theme as they were. *)
C17_Unset ==
    Len(done) < 2 => (~IsSet(summaries) /\ ~IsSet(references))
C17_FailStep ==
    (node = "process_section" /\ node' = "FAILED") =>
        /\ ~IsSet(summaries') /\ ~IsSet(references')
        /\ sections' = sections /\ theme' = theme
C17_AllOrNothing == []C17_Unset /\ [][C17_FailStep]_vars

C17_Witness ==
    /\ Stage = "FAILED" /\ Len(done) = 1
    /\ Last(events).idx = 2
    /\ Keys(loc_summaries) # {} /\ Keys(loc_references) # {}
    /\ ~IsSet(summaries) /\ ~IsSet(references)

(* C18: every run ends, compiled with final_report set or failed; a run
   that did not fail has made 2n+2 completions (one to plan, two for each
   of the n entries of sections, one to compile) and n searches, and has
   run each node and each entry of sections once. *)
Finished ==
    \/ Stage = "FAILED"
    \/ /\ Stage = "COMPILED"
       /\ FINAL_REPORT \in Keys(Get(summaries))
Ports(port) == {k \in 1..Len(events) : events[k].port = port}
C18_Counts ==
    Stage \in {"COMPILED", "END"} =>
        LET n == Len(Get(sections))
        IN  /\ Cardinality(Ports("llm")) = 2 * n + 2
            /\ Cardinality(Ports("search")) = n
            /\ Cardinality(At("plan")) = 1 /\ Cardinality(At("compile")) = 1
            /\ done = <<"generate_sections", "process_section", "compile_report">>
            /\ \A j \in 1..n, kind \in {"keywords", "search", "summary"} :
                  Cardinality({k \in At(kind) : events[k].idx = j}) = 1
C18_Terminates == <>Finished /\ []C18_Counts

C18_Witness ==
    /\ Stage = "COMPILED"
    /\ Len(Get(sections)) = 3
    /\ Cardinality(Ports("llm")) = 8 /\ Cardinality(Ports("search")) = 3

====
